---- MODULE Spec2Model ----
(***************************************************************************)
(* Model of src/server.js: the database bootstrap (initializeDatabase),    *)
(* the server start-up (startServer) and the request handlers that consult *)
(* the pool.  One service process runs against one relational store (a     *)
(* second one in TwoProcessSpec); the                                       *)
(* store answers each statement with success or an error, or not at all.   *)
(***************************************************************************)
EXTENDS Integers, Sequences, FiniteSets, TLC

\* ------------------------------------------------------------------ bounds
\* Rows the products table may hold before the first run (not sample rows).
MaxForeignRows == 1
\* Request slots: how many requests may be in flight at once.
MaxRequests == 2
\* How many times the process is started, one run after the other.
MaxRuns == 2

\* ------------------------------------------------------- program constants
\* initializeDatabase = async (retries = 3); startServer passes no argument.
Retries == 3
\* setTimeout(() => reject(new Error('Database query timeout')), 15000)
TimeoutMs == 15000
\* await new Promise(resolve => setTimeout(resolve, 2000))
BackoffMs == 2000

\* The value of `pool` when `new Pool` threw: the variable stays undefined.
NoPool == "undefined"
ThePool == "Pool"

\* The sampleProducts array literal, prices in cents.
SampleProducts ==
    << [name |-> "Wireless Bluetooth Headphones", price |-> 19999,
        category |-> "Electronics", stock_quantity |-> 50],
       [name |-> "Smart Fitness Watch", price |-> 29999,
        category |-> "Electronics", stock_quantity |-> 30],
       [name |-> "Organic Coffee Beans", price |-> 2499,
        category |-> "Food & Beverage", stock_quantity |-> 100],
       [name |-> "Yoga Mat Premium", price |-> 7999,
        category |-> "Sports", stock_quantity |-> 75],
       [name |-> "Minimalist Backpack", price |-> 8999,
        category |-> "Accessories", stock_quantity |-> 40] >>

\* A row that some earlier writer left in the table.
ForeignRow ==
    [name |-> "Existing Product", price |-> 100,
     category |-> "Other", stock_quantity |-> 1]

ReqIds == 1..MaxRequests
DataKinds == {"products", "productById", "categories"}
Terminal == {"NoConnection", "Ready", "Exhausted"}

VARIABLES
    dbUrlSet,      \* configuration: one of the three URL variables is set
    serverless,    \* configuration: the exported app is invoked by the platform
    tableExists,   \* store: the products table exists
    rows,          \* store: the rows of products, in insertion order
    pool,          \* process: the module-level `pool`
    pc,            \* process: where startServer / initializeDatabase stands
    attempt,       \* process: the loop variable of initializeDatabase
    seedIdx,       \* process: index of the sample product being inserted
    timers,        \* process: armed race timers, each with its promise
    lateCreates,   \* process: CREATE statements abandoned by a timeout
    backoffLog,    \* process: the delays waited between attempts, in ms
    listening,     \* process: app.listen has bound the port
    exported,      \* process: module.exports = app has run
    exited,        \* process: process.exit(1) was called
    reqs,          \* process: the request slots
    lastResponse,  \* process: the response sent last
    run,           \* how many times the process was started
    startRows,     \* rows when this run started
    preCount,      \* number of rows when the current attempt started
    seedRan,       \* the current attempt issued an INSERT
    peerPc,        \* second process: where its initializeDatabase stands
    peerIdx        \* second process: index of the sample product it inserts

vars == << dbUrlSet, serverless, tableExists, rows, pool, pc, attempt, seedIdx,
           timers, lateCreates, backoffLog, listening, exported, exited, reqs,
           lastResponse, run, startRows, preCount, seedRan, peerPc, peerIdx >>

config == << dbUrlSet, serverless >>
store == << tableExists, rows >>
requests == << reqs, lastResponse >>
history == << run, startRows >>
peer == << peerPc, peerIdx >>

\* --------------------------------------------------------- pure functions
DigitChars == << "0", "1", "2", "3", "4", "5", "6", "7", "8", "9" >>

\* The text PostgreSQL sends for COUNT(*): a bigint arrives as a decimal string.
RECURSIVE CountText(_)
CountText(n) ==
    IF n < 10 THEN << DigitChars[n + 1] >>
    ELSE Append(CountText(n \div 10), DigitChars[(n % 10) + 1])

DigitValue(c) == (CHOOSE i \in 1..10 : DigitChars[i] = c) - 1

IsDigit(c) == \E i \in 1..10 : DigitChars[i] = c

\* parseInt: the number its leading decimal digits spell; -1 stands for NaN.
RECURSIVE ParseDigits(_, _)
ParseDigits(s, acc) ==
    IF s = << >> \/ ~IsDigit(Head(s)) THEN acc
    ELSE ParseDigits(Tail(s), acc * 10 + DigitValue(Head(s)))

parseInt(s) ==
    IF s = << >> \/ ~IsDigit(Head(s)) THEN -1 ELSE ParseDigits(s, 0)

\* result.rows[0].count of SELECT COUNT(*) FROM products
CountQueryResult(table) == CountText(Len(table))

TableIsEmpty_Length(count) == Len(count) = 0

TableIsEmpty_AtMostOne(count) == parseInt(count) <= 1

\* if (parseInt(result.rows[0].count) === 0)
TableIsEmpty(count) == parseInt(count) = 0

ShouldRetry_OffByOne(n, retries) == n + 1 < retries

ShouldRetry_Inclusive(n, retries) == n <= retries

\* if (attempt < retries)
ShouldRetry(n, retries) == n < retries

NewRaceTimer_Detached(n) == [attempt |-> n, ms |-> TimeoutMs, subscribed |-> FALSE]

\* The timer promise handed to Promise.race, which subscribes to it.
NewRaceTimer(n) == [attempt |-> n, ms |-> TimeoutMs, subscribed |-> TRUE]

\* try { pool = new Pool(poolConfig) } catch { log }: the constructor is given
\* connectionString: dbUrl whether or not dbUrl is set.
NewPool(urlSet, throws) == IF throws THEN NoPool ELSE ThePool

\* database: pool ? 'connected' : 'disconnected'
HealthDatabase(p) == IF p # NoPool THEN "connected" ELSE "disconnected"

FreeSlot == [phase |-> "free", kind |-> "none"]
NoResponse == [status |-> 0, database |-> "none"]
\* The answer of a data handler: its status; the body has no database field.
Response(s) == [status |-> s, database |-> "none"]

TypeOK ==
    /\ dbUrlSet \in BOOLEAN /\ serverless \in BOOLEAN
    /\ tableExists \in BOOLEAN
    /\ pool \in {NoPool, ThePool}
    /\ pc \in {"load", "create", "count", "insert", "backoff"} \cup Terminal
    /\ attempt \in 0..Retries
    /\ seedIdx \in 0..Len(SampleProducts)
    /\ lateCreates \in 0..Retries
    /\ listening \in BOOLEAN /\ exported \in BOOLEAN /\ exited \in BOOLEAN
    /\ run \in 1..(MaxRuns + 1)
    /\ seedRan \in BOOLEAN
    /\ peerPc \in {"off", "load", "create", "count", "insert", "Ready"}
    /\ peerIdx \in 0..Len(SampleProducts)

\* -------------------------------------------------------------------- Init
\* The store as the first run finds it; the process before server.js is loaded.
InitFor(platforms, peerStates) ==
    /\ peerPc \in peerStates
    /\ peerIdx = 0
    /\ dbUrlSet \in BOOLEAN
    /\ serverless \in platforms
    /\ tableExists \in BOOLEAN
    /\ \E k \in 0..MaxForeignRows :
          rows = IF tableExists THEN [i \in 1..k |-> ForeignRow] ELSE << >>
    /\ pool = NoPool
    /\ pc = "load"
    /\ attempt = 0
    /\ seedIdx = 0
    /\ timers = {}
    /\ lateCreates = 0
    /\ backoffLog = << >>
    /\ listening = FALSE
    /\ exported = FALSE
    /\ exited = FALSE
    /\ reqs = [r \in ReqIds |-> FreeSlot]
    /\ lastResponse = NoResponse
    /\ run = 1
    /\ startRows = rows
    /\ preCount = 0
    /\ seedRan = FALSE

\* One service process: no second process is started against the store.
InitWith(platforms) == InitFor(platforms, {"off"})

\* node server.js: requests come through the bound port only.
Init == InitWith({FALSE})

\* A second service process is about to be started against the same store,
\* whose products table holds no row.
TwoProcessInit == InitFor({FALSE}, {"load"}) /\ rows = << >>

\* The platform may also invoke the exported app.
ServerlessInit == InitWith(BOOLEAN)

\* ------------------------------------------------------ initializeDatabase
\* The top of the loop body: log, then issue CREATE TABLE IF NOT EXISTS raced
\* against a fresh timer.
BeginAttempt(n) ==
    /\ attempt' = n
    /\ pc' = "create"
    /\ timers' = timers \cup {NewRaceTimer(n)}
    /\ preCount' = Len(rows)
    /\ seedRan' = FALSE
    /\ seedIdx' = 0

\* The catch block: back off and go round again, or give up and return.
AttemptFailed ==
    pc' = IF ShouldRetry(attempt, Retries) THEN "backoff" ELSE "Exhausted"

\* initializeDatabase up to its first await.
InitializeDatabase(p) ==
    IF p = NoPool
    THEN /\ pc' = "NoConnection"
         /\ UNCHANGED << attempt, timers, preCount, seedRan, seedIdx >>
    ELSE BeginAttempt(1)

\* Loading server.js: the pool is constructed, startServer is called and runs
\* into initializeDatabase, and the app is exported, all in one turn.
LoadModule ==
    /\ pc = "load" /\ ~exited
    /\ \E throws \in BOOLEAN : pool' = NewPool(dbUrlSet, throws)
    /\ InitializeDatabase(pool')
    /\ exported' = TRUE
    /\ UNCHANGED << config, peer, store, lateCreates, backoffLog, listening, exited,
                    requests, history >>

\* The store carries out CREATE TABLE IF NOT EXISTS; the race resolves and the
\* count query is issued, with no timer of its own.
CreateResolve ==
    /\ pc = "create" /\ ~exited
    /\ tableExists' = TRUE
    /\ pc' = "count"
    /\ UNCHANGED << config, peer, rows, pool, attempt, seedIdx, timers, lateCreates,
                    backoffLog, listening, exported, exited, requests, history,
                    preCount, seedRan >>

\* The store rejects the CREATE statement (or the connection fails).
CreateReject ==
    /\ pc = "create" /\ ~exited
    /\ AttemptFailed
    /\ UNCHANGED << config, peer, store, pool, attempt, seedIdx, timers, lateCreates,
                    backoffLog, listening, exported, exited, requests, history,
                    preCount, seedRan >>

\* The timer of the running race fires first: the race rejects, the CREATE
\* statement stays in flight with nobody awaiting it.
RaceTimeout ==
    /\ pc = "create" /\ ~exited
    /\ \E t \in timers :
          /\ t.attempt = attempt /\ t.subscribed
          /\ timers' = timers \ {t}
    /\ lateCreates' = lateCreates + 1
    /\ AttemptFailed
    /\ UNCHANGED << config, peer, store, pool, attempt, seedIdx, backoffLog, listening,
                    exported, exited, requests, history, preCount, seedRan >>

\* A timer fires whose race is already settled: its promise rejects, which is
\* handled if Promise.race subscribed to it and is an unhandledRejection
\* (process.exit(1)) otherwise.
StaleTimerFire(t) ==
    /\ t \in timers /\ ~exited
    /\ ~(pc = "create" /\ t.attempt = attempt /\ t.subscribed)
    /\ timers' = timers \ {t}
    /\ exited' = ~t.subscribed
    /\ UNCHANGED << config, peer, store, pool, pc, attempt, seedIdx, lateCreates,
                    backoffLog, listening, exported, requests, history, preCount,
                    seedRan >>

\* An abandoned CREATE statement is carried out after all.
LateCreateResolve ==
    /\ lateCreates > 0 /\ ~exited
    /\ lateCreates' = lateCreates - 1
    /\ tableExists' = TRUE
    /\ UNCHANGED << config, peer, rows, pool, pc, attempt, seedIdx, timers, backoffLog,
                    listening, exported, exited, requests, history, preCount,
                    seedRan >>

\* An abandoned CREATE statement fails; the race had subscribed to its promise.
LateCreateReject ==
    /\ lateCreates > 0 /\ ~exited
    /\ lateCreates' = lateCreates - 1
    /\ UNCHANGED << config, peer, store, pool, pc, attempt, seedIdx, timers, backoffLog,
                    listening, exported, exited, requests, history, preCount,
                    seedRan >>

\* The count arrives: seed when it parses to 0, otherwise the run is complete.
CountResolve ==
    /\ pc = "count" /\ ~exited
    /\ tableExists
    /\ IF TableIsEmpty(CountQueryResult(rows))
       THEN /\ pc' = "insert"
            /\ seedIdx' = 1
            /\ seedRan' = TRUE
       ELSE /\ pc' = "Ready"
            /\ UNCHANGED << seedIdx, seedRan >>
    /\ UNCHANGED << config, peer, store, pool, attempt, timers, lateCreates, backoffLog,
                    listening, exported, exited, requests, history, preCount >>

\* The count query fails.
CountReject ==
    /\ pc = "count" /\ ~exited
    /\ AttemptFailed
    /\ UNCHANGED << config, peer, store, pool, attempt, seedIdx, timers, lateCreates,
                    backoffLog, listening, exported, exited, requests, history,
                    preCount, seedRan >>

\* One INSERT of the for-of loop succeeds: the next is issued, or the loop ends.
InsertResolve ==
    /\ pc = "insert" /\ ~exited
    /\ tableExists
    /\ rows' = Append(rows, SampleProducts[seedIdx])
    /\ IF seedIdx < Len(SampleProducts)
       THEN /\ seedIdx' = seedIdx + 1
            /\ pc' = "insert"
       ELSE /\ pc' = "Ready"
            /\ UNCHANGED seedIdx
    /\ UNCHANGED << config, peer, tableExists, pool, attempt, timers, lateCreates,
                    backoffLog, listening, exported, exited, requests, history,
                    preCount, seedRan >>

\* One INSERT fails: the rows inserted before it stay.
InsertReject ==
    /\ pc = "insert" /\ ~exited
    /\ AttemptFailed
    /\ UNCHANGED << config, peer, store, pool, attempt, seedIdx, timers, lateCreates,
                    backoffLog, listening, exported, exited, requests, history,
                    preCount, seedRan >>

\* The backoff timer fires: attempt++ and the loop condition is tested.
BackoffDone ==
    /\ pc = "backoff" /\ ~exited
    /\ backoffLog' = Append(backoffLog, BackoffMs)
    /\ IF attempt + 1 <= Retries
       THEN BeginAttempt(attempt + 1)
       ELSE /\ pc' = "Exhausted"
            /\ UNCHANGED << attempt, timers, preCount, seedRan, seedIdx >>
    /\ UNCHANGED << config, peer, store, pool, lateCreates, listening, exported, exited,
                    requests, history >>

\* ------------------------------------------------------------- startServer
\* initializeDatabase has returned: app.listen binds the port.
Listen ==
    /\ pc \in Terminal /\ ~listening /\ ~exited
    /\ listening' = TRUE
    /\ UNCHANGED << config, peer, store, pool, pc, attempt, seedIdx, timers,
                    lateCreates, backoffLog, exported, exited, requests, history,
                    preCount, seedRan >>

\* -------------------------------------------------------- request handlers
\* Requests reach the handlers once the port is bound, or, on the serverless
\* platform, as soon as the app is exported.
CanServe == ~exited /\ (listening \/ (serverless /\ exported))

\* GET /api/health: answers from `pool` alone, with no query.
HealthArrive ==
    /\ CanServe
    /\ lastResponse' =
          [status |-> 200, database |-> HealthDatabase(pool)]
    /\ UNCHANGED << config, peer, store, pool, pc, attempt, seedIdx, timers,
                    lateCreates, backoffLog, listening, exported, exited, reqs,
                    history, preCount, seedRan >>

\* GET /api/products, /api/products/:id, /api/categories up to the first await:
\* 503 when `pool` is falsy, otherwise the query is issued.
DataArrive(r, k) ==
    /\ CanServe
    /\ reqs[r].phase = "free"
    /\ IF pool = NoPool
       THEN /\ lastResponse' = Response(503)
            /\ UNCHANGED reqs
       ELSE /\ reqs' = [reqs EXCEPT ![r] =
                          [phase |-> "querying", kind |-> k]]
            /\ UNCHANGED lastResponse
    /\ UNCHANGED << config, peer, store, pool, pc, attempt, seedIdx, timers,
                    lateCreates, backoffLog, listening, exported, exited, history,
                    preCount, seedRan >>

\* The status a handler sends when its query returned.  A request for one
\* product names the first id of the sequence: no row matches in an empty table.
StatusOf(q, table) ==
    IF q.kind = "productById" /\ Len(table) = 0 THEN 404 ELSE 200

\* The query of request r returns: res.json, or 404 when no row matched.
QueryResolve(r) ==
    /\ ~exited
    /\ reqs[r].phase = "querying"
    /\ tableExists
    /\ lastResponse' = Response(StatusOf(reqs[r], rows))
    /\ reqs' = [reqs EXCEPT ![r] = FreeSlot]
    /\ UNCHANGED << config, peer, store, pool, pc, attempt, seedIdx, timers,
                    lateCreates, backoffLog, listening, exported, exited, history,
                    preCount, seedRan >>

QueryReject_DropsPool(r) ==
    /\ ~exited
    /\ reqs[r].phase = "querying"
    /\ lastResponse' = Response(500)
    /\ reqs' = [reqs EXCEPT ![r] = FreeSlot]
    /\ pool' = NoPool
    /\ UNCHANGED << config, peer, store, pc, attempt, seedIdx, timers,
                    lateCreates, backoffLog, listening, exported, exited, history,
                    preCount, seedRan >>

\* The query of request r fails: the catch block sends the generic 500.
QueryReject(r) ==
    /\ ~exited
    /\ reqs[r].phase = "querying"
    /\ lastResponse' = Response(500)
    /\ reqs' = [reqs EXCEPT ![r] = FreeSlot]
    /\ UNCHANGED << config, peer, store, pool, pc, attempt, seedIdx, timers,
                    lateCreates, backoffLog, listening, exported, exited, history,
                    preCount, seedRan >>

\* ----------------------------------------------------------------- restart
\* The process has ended or is stopped while serving, and server.js is run
\* again against the same store.  A CREATE statement still in flight may or
\* may not have been carried out.
Restart ==
    /\ run < MaxRuns
    /\ listening \/ exited
    /\ run' = run + 1
    /\ startRows' = rows
    /\ tableExists' \in {tableExists} \cup {b \in {TRUE} : lateCreates > 0}
    /\ pool' = NoPool
    /\ pc' = "load"
    /\ attempt' = 0
    /\ seedIdx' = 0
    /\ timers' = {}
    /\ lateCreates' = 0
    /\ backoffLog' = << >>
    /\ listening' = FALSE
    /\ exported' = FALSE
    /\ exited' = FALSE
    /\ reqs' = [r \in ReqIds |-> FreeSlot]
    /\ lastResponse' = NoResponse
    /\ preCount' = 0
    /\ seedRan' = FALSE
    /\ UNCHANGED << config, peer, rows >>

\* ------------------------------------------------------------ specification
\* The steps of start-up: loading, the initializer, its timers, and listen.
StartupNext ==
    \/ LoadModule
    \/ CreateResolve
    \/ CreateReject
    \/ RaceTimeout
    \/ \E t \in timers : StaleTimerFire(t)
    \/ LateCreateResolve
    \/ LateCreateReject
    \/ CountResolve
    \/ CountReject
    \/ InsertResolve
    \/ InsertReject
    \/ BackoffDone
    \/ Listen

Next ==
    \/ StartupNext
    \/ HealthArrive
    \/ \E r \in ReqIds, k \in DataKinds : DataArrive(r, k)
    \/ \E r \in ReqIds : QueryResolve(r)
    \/ \E r \in ReqIds : QueryReject(r)
    \/ Restart

Spec == Init /\ [][Next]_vars

\* What the event loop guarantees: the module is loaded, an armed timer fires,
\* and a bound port is reported.  Nothing makes the store answer a statement.
Fairness ==
    /\ WF_vars(LoadModule)
    /\ WF_vars(RaceTimeout)
    /\ WF_vars(\E t \in timers : StaleTimerFire(t))
    /\ WF_vars(BackoffDone)
    /\ WF_vars(Listen)

LiveSpec == Init /\ [][Next]_vars /\ Fairness

ServerlessSpec == ServerlessInit /\ [][Next]_vars

\* ----------------------------------------------------------- second process
\* A second process running the same server.js against the same store, on the
\* path where the store answers each of its statements: it loads and issues
\* CREATE TABLE IF NOT EXISTS.
PeerLoad ==
    /\ peerPc = "load"
    /\ peerPc' = "create"
    /\ UNCHANGED << config, store, pool, pc, attempt, seedIdx, timers,
                    lateCreates, backoffLog, listening, exported, exited, requests,
                    history, preCount, seedRan, peerIdx >>

\* Its CREATE statement is carried out and it issues its count query.
PeerCreateResolve ==
    /\ peerPc = "create"
    /\ tableExists' = TRUE
    /\ peerPc' = "count"
    /\ UNCHANGED << config, rows, pool, pc, attempt, seedIdx, timers,
                    lateCreates, backoffLog, listening, exported, exited, requests,
                    history, preCount, seedRan, peerIdx >>

\* Its count arrives: it seeds when the count parses to 0.
PeerCountResolve ==
    /\ peerPc = "count"
    /\ tableExists
    /\ IF TableIsEmpty(CountQueryResult(rows))
       THEN peerPc' = "insert" /\ peerIdx' = 1
       ELSE peerPc' = "Ready" /\ UNCHANGED peerIdx
    /\ UNCHANGED << config, store, pool, pc, attempt, seedIdx, timers,
                    lateCreates, backoffLog, listening, exported, exited, requests,
                    history, preCount, seedRan >>

\* One of its INSERTs succeeds: the next is issued, or its loop ends.
PeerInsertResolve ==
    /\ peerPc = "insert"
    /\ tableExists
    /\ rows' = Append(rows, SampleProducts[peerIdx])
    /\ IF peerIdx < Len(SampleProducts)
       THEN peerIdx' = peerIdx + 1 /\ peerPc' = "insert"
       ELSE peerPc' = "Ready" /\ UNCHANGED peerIdx
    /\ UNCHANGED << config, tableExists, pool, pc, attempt, seedIdx, timers,
                    lateCreates, backoffLog, listening, exported, exited, requests,
                    history, preCount, seedRan >>

\* The start-up of both processes; requests and restarts are left to Next.
TwoProcessNext ==
    \/ StartupNext
    \/ PeerLoad
    \/ PeerCreateResolve
    \/ PeerCountResolve
    \/ PeerInsertResolve

TwoProcessSpec == TwoProcessInit /\ [][TwoProcessNext]_vars

\* ------------------------------------------------------------------ claims
\* C1: with no connection string configured, once server.js is loaded the pool
\* is unset (the handlers' store-available test is false), initializeDatabase
\* has made no attempt and the initializer is in NoConnection.
C1_NoUrlNoAttempts ==
    (~dbUrlSet /\ pc # "load") =>
        (pool = NoPool /\ attempt = 0 /\ pc = "NoConnection")

\* C2: a run in which every attempt failed has made exactly Retries attempts,
\* has waited the fixed backoff between consecutive attempts and nowhere else,
\* and has returned into the degraded state with the process alive.
C2_UnreachableStore ==
    pc = "Exhausted" =>
        /\ attempt = Retries
        /\ backoffLog = [i \in 1..(Retries - 1) |-> BackoffMs]
        /\ ~exited

C2_Witness ==
    pc = "Exhausted" /\ attempt = Retries /\ listening /\ ~exited

\* C3: once the initializer has ended in Exhausted, a data request that arrives
\* is answered 503 at once and issues no query to the store.
C3_ExhaustedFailsFast ==
    [][\A r \in ReqIds, k \in DataKinds :
          (pc = "Exhausted" /\ DataArrive(r, k)) =>
              (lastResponse' = Response(503) /\ reqs' = reqs)]_vars

\* C4: when the table was empty at the start of the run and the initializer
\* ended in Ready, the table holds exactly the five sample products, each once.
C4_EmptyThenFive ==
    (pc = "Ready" /\ Len(startRows) = 0) => rows = SampleProducts

\* C5: when the first attempt gets its count answered, the seeding step runs
\* if and only if the table held no row before that attempt.
C5_SeedIffEmpty ==
    (attempt = 1 /\ pc \in {"insert", "Ready"}) => (seedRan <=> preCount = 0)

C5_Witness ==
    /\ attempt = 1 /\ pc = "Ready"
    /\ preCount = 0 /\ seedRan
    /\ rows = SampleProducts

\* C6: a run that starts against a table with at least one row leaves the rows
\* as they were and issues no INSERT, in the first run and in every later one.
C6_IdempotentOnNonEmpty ==
    Len(startRows) > 0 => (rows = startRows /\ ~seedRan)

C6_Witness ==
    /\ run = MaxRuns /\ pc = "Ready" /\ listening
    /\ startRows = SampleProducts /\ rows = SampleProducts

\* C7: whatever the store does, the initializer reaches a terminal state and
\* the HTTP server starts listening.
C7_StartupTerminates == <>listening

\* C8: no error, timeout, late timer or late rejection inside the initializer
\* reaches the unhandledRejection / uncaughtException handlers: the process
\* never exits.
C8_NoFatalFault == ~exited

\* A race timer has fired after its CREATE statement had succeeded, while a
\* CREATE statement abandoned by an earlier timeout is still in flight.
C8_Witness ==
    /\ pc = "count" /\ attempt > 1
    /\ timers = {} /\ lateCreates > 0
    /\ ~exited

\* C9: within one run the pool is assigned when server.js is loaded and never
\* again; a failed request query answers 500 and leaves the pool and every
\* other request in flight as they were.
C9_FlagSetOnce ==
    [][/\ (pc # "load" /\ run' = run) => pool' = pool
       /\ \A r \in ReqIds :
             QueryReject(r) =>
                 /\ pool' = pool
                 /\ lastResponse'.status = 500
                 /\ \A q \in ReqIds \ {r} : reqs'[q] = reqs[q]]_vars

C9_Witness ==
    /\ pool = ThePool
    /\ lastResponse.status = 500
    /\ \E r \in ReqIds : reqs[r].phase = "querying"

\* C10: GET /api/health answers 'connected' exactly when the initializer ended
\* in Ready, and 'disconnected' when it ended in NoConnection or Exhausted.
C10_HealthReportsReadiness ==
    [][HealthArrive =>
          lastResponse'.database =
              (IF pc = "Ready" THEN "connected" ELSE "disconnected")]_vars

\* C11: within one run, an attempt that fails (by error or by the race timer)
\* before the last one goes into the backoff and the backoff into the next
\* attempt; the attempt number only ever grows by one, at the start of an
\* attempt, and never passes Retries; nothing follows Ready; and the last
\* failed attempt goes to Exhausted with no backoff.
C11_RetryStep ==
    [][run' = run =>
          /\ attempt' \in 0..Retries
          /\ attempt' # attempt =>
                /\ attempt' = attempt + 1
                /\ pc \in {"load", "backoff"} /\ pc' = "create"
          /\ (CreateReject \/ RaceTimeout \/ CountReject \/ InsertReject) =>
                /\ attempt' = attempt
                /\ pc' = IF attempt < Retries THEN "backoff" ELSE "Exhausted"
          /\ pc = "backoff" =>
                /\ attempt < Retries
                /\ pc' \in {"backoff", "create"}
                /\ pc' = "create" =>
                      (attempt' = attempt + 1 /\ Len(backoffLog') = attempt)
          /\ pc \in Terminal => (pc' = pc /\ attempt' = attempt)]_vars

\* The third attempt is running after a timeout of an earlier one, whose CREATE
\* statement is still in flight.
C11_Witness ==
    /\ pc = "create" /\ attempt = Retries
    /\ lateCreates > 0
    /\ backoffLog = [i \in 1..(Retries - 1) |-> BackoffMs]

\* C12: the port is bound only once the initializer is in a terminal state,
\* and no request handler has a query at the store while an attempt or a
\* seeding insert is in progress.
C12_StartupOrdering ==
    /\ listening => pc \in Terminal
    /\ \A r \in ReqIds : reqs[r].phase = "querying" => pc \in Terminal

\* The number of rows of the table that are sample product p.
Copies(table, p) == Cardinality({i \in DOMAIN table : table[i] = p})

\* C13: with two processes initializing against a table that was empty at the
\* start, the sample catalog is never inserted twice: no sample product is in
\* the table more than once, and with both processes Ready the table holds at
\* most the five sample rows.
C13_NoDuplicateSeed ==
    (peerPc # "off" /\ run = 1 /\ Len(startRows) = 0) =>
        /\ \A i \in DOMAIN SampleProducts : Copies(rows, SampleProducts[i]) <= 1
        /\ (pc = "Ready" /\ peerPc = "Ready") => Len(rows) <= Len(SampleProducts)

====
